---- MODULE Spec2Model ----
(***************************************************************************)
(* Model of zfs-restic: the backup orchestrator (zfs-restic-backup.py) and *)
(* the standalone lock check (zfs-check-unlocked.py), together with the    *)
(* ZFS / restic collaborators they talk to.                                *)
(*                                                                         *)
(* A Python string is modelled as a sequence of atoms.  An atom is either  *)
(* a separator character (" ", "\n", "\t", "/", "-", "@", ".") or a whole  *)
(* word ("tank", "available").  Parsing code (strip, splitlines, split,    *)
(* abspath) works on those sequences as the Python code works on           *)
(* characters.                                                             *)
(***************************************************************************)
EXTENDS Integers, Sequences, FiniteSets, TLC

(***************************************************************************)
(* Bounds of the model.                                                    *)
(***************************************************************************)
MaxOutLen == 2      \* longest keystatus output (in atoms) the collaborator prints
MaxPaths == 2       \* most path arguments given to zfs-check-unlocked.py

(***************************************************************************)
(* Python values.                                                          *)
(***************************************************************************)
None == <<"<None>">>

Falsy(v) == v = None \/ v = <<>>

SP == " "
NL == "\n"
TAB == "\t"
SLASH == "/"

IsWS(c) == c \in {SP, NL, TAB}

RECURSIVE LStrip(_)
LStrip(s) == IF s # <<>> /\ IsWS(Head(s)) THEN LStrip(Tail(s)) ELSE s

RECURSIVE RStrip(_)
RStrip(s) ==
    IF s # <<>> /\ IsWS(s[Len(s)]) THEN RStrip(SubSeq(s, 1, Len(s) - 1)) ELSE s

\* str.strip()
Strip(s) == RStrip(LStrip(s))

\* index of the first occurrence of atom c in s, 0 when absent
FirstIndex(s, c) ==
    IF \E i \in 1..Len(s) : s[i] = c
    THEN CHOOSE i \in 1..Len(s) : s[i] = c /\ \A j \in 1..(i - 1) : s[j] # c
    ELSE 0

\* str.split(sep)
RECURSIVE SplitOn(_, _)
SplitOn(s, sep) ==
    LET i == FirstIndex(s, sep)
    IN IF i = 0 THEN <<s>>
       ELSE <<SubSeq(s, 1, i - 1)>> \o SplitOn(SubSeq(s, i + 1, Len(s)), sep)

\* str.splitlines()
SplitLines(s) ==
    IF s = <<>> THEN <<>>
    ELSE IF s[Len(s)] = NL THEN SplitOn(SubSeq(s, 1, Len(s) - 1), NL)
    ELSE SplitOn(s, NL)

\* sep.join(parts)
RECURSIVE Join(_, _)
Join(parts, sep) ==
    IF parts = <<>> THEN <<>>
    ELSE IF Len(parts) = 1 THEN parts[1]
    ELSE parts[1] \o <<sep>> \o Join(Tail(parts), sep)

\* all sequences over S of length at most n
SeqsUpTo(S, n) == UNION {[1..k -> S] : k \in 0..n}

(***************************************************************************)
(* os.path.abspath (posixpath): join with the working directory when the   *)
(* path is relative, then normpath.                                        *)
(***************************************************************************)
Cwd == <<SLASH, "mnt">>

RECURSIVE LeadingSlashes(_)
LeadingSlashes(p) ==
    IF p # <<>> /\ Head(p) = SLASH THEN 1 + LeadingSlashes(Tail(p)) ELSE 0

RECURSIVE NormComps(_, _, _)
NormComps(comps, acc, rooted) ==
    IF comps = <<>> THEN acc
    ELSE LET c == Head(comps)
             rest == Tail(comps)
         IN IF c = <<>> \/ c = <<".">> THEN NormComps(rest, acc, rooted)
            ELSE IF c # <<"..">>
                    \/ (~rooted /\ acc = <<>>)
                    \/ (acc # <<>> /\ acc[Len(acc)] = <<"..">>)
                 THEN NormComps(rest, Append(acc, c), rooted)
            ELSE IF acc # <<>>
                 THEN NormComps(rest, SubSeq(acc, 1, Len(acc) - 1), rooted)
            ELSE NormComps(rest, acc, rooted)

NormPath(p) ==
    IF p = <<>> THEN <<".">>
    ELSE LET n == LeadingSlashes(p)
             initial == IF n = 0 THEN 0 ELSE IF n = 2 THEN 2 ELSE 1
             body == Join(NormComps(SplitOn(p, SLASH), <<>>, initial > 0), SLASH)
             res == [i \in 1..initial |-> SLASH] \o body
         IN IF res = <<>> THEN <<".">> ELSE res

AbsPath(p) ==
    IF p # <<>> /\ Head(p) = SLASH THEN NormPath(p)
    ELSE IF p = <<>> THEN NormPath(Cwd)
    ELSE NormPath(Cwd \o <<SLASH>> \o p)

(***************************************************************************)
(* The filesystem collaborator's possible answers.                         *)
(***************************************************************************)
MntA == <<SLASH, "mnt", SLASH, "a">>
MntB == <<SLASH, "mnt", SLASH, "b">>
Mnt == <<SLASH, "mnt">>
MntAChild == <<SLASH, "mnt", SLASH, "a", SLASH, "x">>

Tank == <<"tank">>
TankA == <<"tank/a">>
TankB == <<"tank/b">>

DatasetNames == {Tank, TankA, TankB}

\* every name a property query can be issued for
QueryTargets == DatasetNames \cup {<<"-">>, <<>>, None}

\* stdout of `zfs list -H -o name,mountpoint`
ListOutputs ==
    { Tank \o <<TAB, "none", NL>> \o TankA \o <<TAB>> \o MntA \o <<NL>>
        \o TankB \o <<TAB>> \o MntB \o <<NL>>,
      <<"junk", NL>> \o TankA \o <<TAB>> \o MntA \o <<NL>>
        \o TankB \o <<TAB>> \o MntA \o <<NL>>,
      <<"junk", NL, TAB>> \o MntA \o <<NL>>,
      Tank \o <<TAB, "none", NL>> \o TankB \o <<TAB>> \o MntA \o <<SP, NL>>,
      <<>> }

\* stdout of `zfs get -H -o value encryptionroot <ds>`
EncRootOutputs ==
    { <<>>, <<NL>>, <<"-", NL>>, Tank \o <<NL>>, TankA \o <<NL>>,
      <<SP>> \o Tank \o <<SP, NL>> }

\* stdout of `zfs get -H -o value keystatus <ds>`
KeystatusAtoms == {"available", "unavailable", "locked", "x", NL}

KeystatusOutputs == SeqsUpTo(KeystatusAtoms, MaxOutLen)

Unasked == [rc |-> -1, out |-> <<>>]

Responses(outs) == [rc : {0}, out : outs] \cup {[rc |-> 1, out |-> <<>>]}

\* subprocess return codes: an exit status, or -N when killed by signal N
ZfsReturnCodes == {0, 1}
ResticReturnCodes == {0, 1, 3, 255, -9}

\* sys.exit(n): the status a parent observes
ExitStatus(n) == n % 256

\* exit status of an interpreter that dies on an unhandled exception
UnhandledExceptionStatus == 1

(***************************************************************************)
(* zfs-restic-backup.py: pure helpers.                                     *)
(***************************************************************************)
ResticBinFlag == <<"--restic-bin">>
DashDash == <<"--">>

\* args.index(tok): 1-based position of the first token equal to tok, 0 if none
TokenIndex(args, tok) ==
    IF \E i \in 1..Len(args) : args[i] = tok
    THEN CHOOSE i \in 1..Len(args) : args[i] = tok /\ \A j \in 1..(i - 1) : args[j] # tok
    ELSE 0

RECURSIVE ParseLoop(_, _)
ParseLoop(args, restic_bin) ==
    IF args # <<>> /\ Head(args) = ResticBinFlag
    THEN IF Tail(args) = <<>>
         THEN [restic_bin |-> <<>>, mount_point |-> <<>>, restic_args |-> <<>>]
         ELSE ParseLoop(Tail(Tail(args)), Strip(Head(Tail(args))))
    ELSE IF args = <<>>
         THEN [restic_bin |-> restic_bin, mount_point |-> <<>>, restic_args |-> <<>>]
    ELSE IF TokenIndex(args, DashDash) # 0
         THEN [restic_bin |-> restic_bin,
               mount_point |-> Strip(args[1]),
               restic_args |-> SubSeq(args, TokenIndex(args, DashDash) + 1, Len(args))]
    ELSE [restic_bin |-> restic_bin, mount_point |-> Strip(args[1]), restic_args |-> <<>>]

parse_args(argv) == ParseLoop(argv, None)

\* the loop of get_dataset_for_path over the listing's lines
RECURSIVE FirstMatch(_, _)
FirstMatch(lines, path) ==
    IF lines = <<>> THEN None
    ELSE LET line == Head(lines)
             t == FirstIndex(line, TAB)
         IN IF t # 0 /\ SubSeq(line, t + 1, Len(line)) = path
            THEN SubSeq(line, 1, t - 1)
            ELSE FirstMatch(Tail(lines), path)

get_dataset_for_path(resp, path) ==
    IF resp.rc # 0 THEN None ELSE FirstMatch(SplitLines(Strip(resp.out)), path)

\* faulty variant: the "-" sentinel is taken for a dataset name
get_encryption_root_NoSentinel(resp) ==
    IF resp.rc # 0 THEN None
    ELSE LET value == Strip(resp.out)
         IN IF value = <<>> THEN None ELSE value

get_encryption_root(resp) ==
    IF resp.rc # 0 THEN None
    ELSE LET value == Strip(resp.out)
         IN IF value = <<>> \/ value = <<"-">> THEN None ELSE value

\* faulty variant: the value keeps its trailing newline
get_keystatus_NoStrip(resp) ==
    IF resp.rc # 0 THEN None
    ELSE IF resp.out = <<>> THEN None ELSE resp.out

get_keystatus(resp) ==
    IF resp.rc # 0 THEN None
    ELSE IF Strip(resp.out) = <<>> THEN None ELSE Strip(resp.out)

\* faulty variant: only the two known locked states are refused
ClassifyKeystatus_OnlyKnownLocked(status) ==
    IF status \in {<<"unavailable">>, <<"locked">>} THEN "locked" ELSE "available"

\* lines 221-226: the two tests on status: "locked", "unexpected" or "available"
ClassifyKeystatus(status) ==
    IF status \in {<<"unavailable">>, <<"locked">>} THEN "locked"
    ELSE IF status # <<"available">> THEN "unexpected"
    ELSE "available"

(***************************************************************************)
(* Decimal strings and dates.  int() of a digit string is kept as the      *)
(* digit sequence (creation times in nanoseconds exceed machine integers   *)
(* of the checker); comparisons and divisions are done on the digits.      *)
(***************************************************************************)
DigitAtoms == <<"0", "1", "2", "3", "4", "5", "6", "7", "8", "9">>

IsDigit(c) == \E i \in 1..10 : DigitAtoms[i] = c

DigitValue(c) == (CHOOSE i \in 1..10 : DigitAtoms[i] = c) - 1

IsDigits(s) == s # <<>> /\ \A i \in 1..Len(s) : IsDigit(s[i])

\* what int(raw) accepts: digits with an optional sign
IsIntLiteral(s) ==
    \/ IsDigits(s)
    \/ Len(s) > 1 /\ s[1] \in {"-", "+"} /\ IsDigits(Tail(s))

RECURSIVE DropZeros(_)
DropZeros(d) == IF Len(d) > 1 /\ Head(d) = "0" THEN DropZeros(Tail(d)) ELSE d

\* a < b for digit strings without leading zeros
RECURSIVE SameLenLess(_, _)
SameLenLess(a, b) ==
    IF a = <<>> THEN FALSE
    ELSE IF DigitValue(Head(a)) # DigitValue(Head(b))
         THEN DigitValue(Head(a)) < DigitValue(Head(b))
    ELSE SameLenLess(Tail(a), Tail(b))

DigitsLess(a, b) ==
    IF Len(a) # Len(b) THEN Len(a) < Len(b) ELSE SameLenLess(a, b)

\* long division of a digit string by a small divisor: <<quotient digits, remainder>>
RECURSIVE LongDiv(_, _, _, _)
LongDiv(d, k, q, rem) ==
    IF d = <<>> THEN <<DropZeros(IF q = <<>> THEN <<"0">> ELSE q), rem>>
    ELSE LET cur == rem * 10 + DigitValue(Head(d))
         IN LongDiv(Tail(d), k, Append(q, DigitAtoms[(cur \div k) + 1]), cur % k)

RECURSIVE DigitsToInt(_, _)
DigitsToInt(d, acc) ==
    IF d = <<>> THEN acc ELSE DigitsToInt(Tail(d), acc * 10 + DigitValue(Head(d)))

\* n written with at least w digits, zero padded
RECURSIVE Pad(_, _)
Pad(n, w) ==
    IF w <= 1 /\ n < 10 THEN <<DigitAtoms[n + 1]>>
    ELSE Pad(n \div 10, w - 1) \o <<DigitAtoms[(n % 10) + 1]>>

SecondsPerDay == 86400
NanoThreshold == <<"1", "0", "0", "0", "0", "0", "0", "0", "0", "0", "0", "0", "0">>
NanoDigits == 9
TimeTMax == <<"9", "2", "2", "3", "3", "7", "2", "0", "3", "6", "8", "5", "4", "7", "7", "5", "8", "0", "7">>
MinDay == -719162     \* 0001-01-01 as days since 1970-01-01
MaxDay == 2932896     \* 9999-12-31 as days since 1970-01-01

\* proleptic Gregorian date of a day number (days since 1970-01-01)
CivilFromDays(days) ==
    LET z == days + 719468
        era == z \div 146097
        doe == z - era * 146097
        yoe == (doe - doe \div 1460 + doe \div 36524 - doe \div 146096) \div 365
        doy == doe - (365 * yoe + yoe \div 4 - yoe \div 100)
        mp == (5 * doy + 2) \div 153
        d == doy - (153 * mp + 2) \div 5 + 1
        m == IF mp < 10 THEN mp + 3 ELSE mp - 9
        y == yoe + era * 400 + (IF m <= 2 THEN 1 ELSE 0)
    IN [year |-> y, month |-> m, day |-> d]

\* a local broken-down time: day number and second of the day
LocalTime(days, secs, tz) ==
    LET t == secs + tz
    IN [days |-> days + (t \div SecondsPerDay), secs |-> t % SecondsPerDay]

\* strftime("%Y-%m-%d %H:%M:%S")
FormatResticTime(lt) ==
    LET c == CivilFromDays(lt.days)
    IN Pad(c.year, 4) \o <<"-">> \o Pad(c.month, 2) \o <<"-">> \o Pad(c.day, 2)
       \o <<SP>> \o Pad(lt.secs \div 3600, 2) \o <<":">>
       \o Pad((lt.secs \div 60) % 60, 2) \o <<":">> \o Pad(lt.secs % 60, 2)

\* strftime("%Y%m%d-%H%M%S")
FormatSnapTime(lt) ==
    LET c == CivilFromDays(lt.days)
    IN Pad(c.year, 4) \o Pad(c.month, 2) \o Pad(c.day, 2) \o <<"-">>
       \o Pad(lt.secs \div 3600, 2) \o Pad((lt.secs \div 60) % 60, 2)
       \o Pad(lt.secs % 60, 2)

Crash == <<"<unhandled exception>">>

\* get_snapshot_creation_time: the --time string, None, or Crash when
\* datetime.fromtimestamp raises OverflowError (not caught by the except clause)
get_snapshot_creation_time(resp, tz) ==
    IF resp.rc # 0 THEN None
    ELSE LET raw == Strip(resp.out)
         IN IF raw = <<>> THEN None
            ELSE IF ~IsIntLiteral(raw) THEN None
            ELSE LET neg == raw[1] = "-"
                     mag == DropZeros(IF IsDigit(raw[1]) THEN raw ELSE Tail(raw))
                     nano == ~neg /\ DigitsLess(NanoThreshold, mag)
                     epoch == IF nano
                              THEN (IF Len(mag) > NanoDigits
                                    THEN SubSeq(mag, 1, Len(mag) - NanoDigits)
                                    ELSE <<"0">>)
                              ELSE mag
                     dm == LongDiv(epoch, SecondsPerDay, <<>>, 0)
                     tooBig == Len(dm[1]) > 8
                     qdays == IF tooBig THEN 0 ELSE DigitsToInt(dm[1], 0)
                     days == IF ~neg THEN qdays
                             ELSE IF dm[2] = 0 THEN 0 - qdays ELSE 0 - qdays - 1
                     secs == IF ~neg \/ dm[2] = 0 THEN dm[2] ELSE SecondsPerDay - dm[2]
                     lt == LocalTime(days, secs, tz)
                 IN IF DigitsLess(TimeTMax, epoch) THEN Crash
                    ELSE IF tooBig \/ lt.days < MinDay \/ lt.days > MaxDay THEN None
                    ELSE FormatResticTime(lt)

(***************************************************************************)
(* Process attributes and inputs of the orchestrator.                      *)
(***************************************************************************)
Runs == {1, 2}

Pids == {7, 42}
Nodenames == {<<"nas">>, <<".", "nas", ".", "lan">>, <<".">>}
Clocks == {1704067199, 1704067200}       \* datetime.now() as epoch seconds
TzOffsets == {0, 3600}                   \* local time zone, seconds east of UTC

ResticPath == <<SLASH, "opt", SLASH, "restic">>

BackupArgvs ==
    { <<MntA>>,
      <<>>,
      <<ResticBinFlag>>,
      <<<<SP>>>>,
      <<ResticBinFlag, ResticPath, MntA, DashDash, <<"--tag">>, <<"x">>>>,
      <<<<"a", SLASH>>, DashDash, <<"-v">>, DashDash, <<SP, "y", SP>>>>,
      <<Mnt>>,
      <<MntAChild>> }

\* stdout of `zfs get -H -p -o value creation <snapshot>`
CreationOutputs ==
    { <<"1", "7", "0", "4", "0", "6", "7", "2", "0", "0", NL>>,
      <<"1", "7", "0", "4", "0", "6", "7", "2", "0", "1",
        "0", "0", "0", "0", "0", "0", "0", "0", "0", NL>>,
      <<>>,
      <<"-", NL>>,
      <<"1", "0", "0", "0", "0", "0", "0", "0", "0", "0", "0", "0", "0", NL>>,
      [i \in 1..31 |-> IF i = 1 THEN "1" ELSE "0"] }

\* re.sub(r"[^a-zA-Z0-9-]", "-", nodename).strip("-") or "host"
RECURSIVE StripDashes(_)
StripDashes(s) ==
    IF s # <<>> /\ Head(s) = "-" THEN StripDashes(Tail(s))
    ELSE IF s # <<>> /\ s[Len(s)] = "-" THEN StripDashes(SubSeq(s, 1, Len(s) - 1))
    ELSE s

SanitizeHost(nodename) ==
    LET subbed == [i \in 1..Len(nodename) |->
                     IF nodename[i] \in {".", "_", SP} THEN "-" ELSE nodename[i]]
        stripped == StripDashes(subbed)
    IN IF stripped = <<>> THEN <<"host">> ELSE stripped

\* faulty variant: the name is built from the host and the second only
SnapName_NoPid(pid, nodename, clock, tz) ==
    <<"zfs-restic-">> \o SanitizeHost(nodename) \o <<"-">>
    \o FormatSnapTime(LocalTime(clock \div SecondsPerDay, clock % SecondsPerDay, tz))

\* f"zfs-restic-{pid}-{hostname}-{snap_ts.strftime('%Y%m%d-%H%M%S')}"
SnapName(pid, nodename, clock, tz) ==
    <<"zfs-restic-">> \o Pad(pid, 1) \o <<"-">> \o SanitizeHost(nodename) \o <<"-">>
    \o FormatSnapTime(LocalTime(clock \div SecondsPerDay, clock % SecondsPerDay, tz))

\* f"{ds}@{snap_name}"
SnapshotSpec(ds, snap_name) == ds \o <<"@">> \o snap_name

\* Path(source_path) / ".zfs" / "snapshot" / snap_name
SnapshotDir(source_path, snap_name) ==
    (IF source_path[Len(source_path)] = SLASH THEN source_path
     ELSE source_path \o <<SLASH>>)
    \o <<".zfs", SLASH, "snapshot", SLASH>> \o snap_name

\* faulty variant: the caller's arguments are placed before the path argument
BackupCmd_ArgsBeforePath(restic_cmd, restic_time, restic_cli_args) ==
    <<restic_cmd, <<"backup">>, <<"--time">>, restic_time>> \o restic_cli_args \o <<<<".">>>>

\* [restic_cmd, "backup", "--time", restic_time, "."] + restic_cli_args
BackupCmd(restic_cmd, restic_time, restic_cli_args) ==
    <<restic_cmd, <<"backup">>, <<"--time">>, restic_time, <<".">>>> \o restic_cli_args

(***************************************************************************)
(* State.                                                                  *)
(***************************************************************************)
VARIABLES
    run,        \* run[r]: the locals of orchestrator process r
    chk,        \* the locals of the zfs-check-unlocked.py process
    listResp,   \* the collaborator's answer to the dataset listing
    encResp,    \* encResp[d]: its answer to the encryptionroot query for d
    ksResp,     \* ksResp[d]: its answer to the keystatus query for d
    snapshots   \* the snapshots that exist

vars == <<run, chk, listResp, encResp, ksResp, snapshots>>

NoCwd == <<>>

Req(cmd, arg, cwd, rc) == [cmd |-> cmd, arg |-> arg, cwd |-> cwd, rc |-> rc]

IdleRun ==
    [pc |-> "idle", argv |-> <<>>, restic_bin |-> None, mount_point |-> <<>>,
     restic_cli_args |-> <<>>, restic_cmd |-> <<"restic">>, source_path |-> <<>>,
     snap_name |-> <<>>, ds |-> None, enc_root |-> None, status |-> None,
     lock |-> "pending", snapshot_spec |-> <<>>, creation |-> None, restic_time |-> None,
     snapshot_dir |-> <<>>, cmd |-> <<>>, returncode |-> 0, exit |-> -1, traceback |-> FALSE,
     pid |-> 0, nodename |-> <<>>, tz |-> 0, clock |-> 0, issued |-> <<>>]

\* a started process: its argv, its pid, the host's name and time zone, and
\* the reading datetime.now() gives it at line 209
StartRun(argv, pid, nodename, tz, clock) ==
    [IdleRun EXCEPT !.pc = "start", !.argv = argv, !.pid = pid,
                    !.nodename = nodename, !.tz = tz, !.clock = clock]

\* `return code` from main, then sys.exit
Return(rec, code) == [rec EXCEPT !.pc = "exited", !.exit = ExitStatus(code)]

\* an exception nobody catches ends the interpreter with a traceback
Raise(rec) ==
    [rec EXCEPT !.pc = "exited", !.exit = UnhandledExceptionStatus, !.traceback = TRUE]

Issue(rec, cmd, arg, cwd, rc) ==
    [rec EXCEPT !.issued = Append(@, Req(cmd, arg, cwd, rc))]

EnvUnchanged == UNCHANGED <<listResp, encResp, ksResp, snapshots>>

(***************************************************************************)
(* zfs-restic-backup.py main(), one action per step.                       *)
(***************************************************************************)

\* lines 151-172: parse the command line
ParseCLI(r) ==
    /\ run[r].pc = "start"
    /\ LET a == parse_args(run[r].argv)
           rec == [run[r] EXCEPT !.restic_bin = a.restic_bin,
                                 !.mount_point = a.mount_point,
                                 !.restic_cli_args = a.restic_args]
       IN IF Falsy(a.mount_point)
          THEN run' = [run EXCEPT ![r] = Return(rec, 1)]
          ELSE IF ~Falsy(a.restic_bin)
          THEN run' = [run EXCEPT ![r] = [rec EXCEPT !.pc = "restic_bin"]]
          ELSE run' = [run EXCEPT ![r] =
                         [rec EXCEPT !.pc = "zfs_version",
                                     !.source_path = AbsPath(a.mount_point)]]
    /\ UNCHANGED chk
    /\ EnvUnchanged

\* lines 162-172: --restic-bin must name an executable file
ValidateResticBin(r) ==
    /\ run[r].pc = "restic_bin"
    /\ \E is_file \in BOOLEAN, executable \in BOOLEAN :
         LET restic_bin_path == AbsPath(run[r].restic_bin)
         IN IF ~is_file \/ ~executable
            THEN run' = [run EXCEPT ![r] = Return(run[r], 1)]
            ELSE run' = [run EXCEPT ![r] =
                           [run[r] EXCEPT !.pc = "zfs_version",
                                          !.restic_cmd = restic_bin_path,
                                          !.source_path = AbsPath(run[r].mount_point)]]
    /\ UNCHANGED chk
    /\ EnvUnchanged

\* outcome of a version query: a return code, or FileNotFoundError
NotFound == -1000
VersionOutcomes == {0, 2, NotFound}

\* faulty variant: a failing version query's own return code becomes the exit status
AfterVersion_PropagatesCode(rec, outcome, next) ==
    IF outcome = NotFound THEN Return(rec, 1)
    ELSE IF outcome # 0 THEN Return(rec, outcome)
    ELSE [rec EXCEPT !.pc = next]

\* lines 192-201: what a version query's outcome does to the run
AfterVersion(rec, outcome, next) ==
    IF outcome = NotFound THEN Return(rec, 1)
    ELSE IF outcome # 0 THEN Return(rec, 1)
    ELSE [rec EXCEPT !.pc = next]

\* lines 183-201, first iteration: `zfs version`
ZfsVersion(r) ==
    /\ run[r].pc = "zfs_version"
    /\ \E outcome \in VersionOutcomes :
         run' = [run EXCEPT ![r] =
                   AfterVersion(Issue(run[r], "zfs version", <<>>, NoCwd, outcome),
                                outcome, "restic_version")]
    /\ UNCHANGED chk
    /\ EnvUnchanged

\* lines 183-201, second iteration: `<restic> version`
ResticVersion(r) ==
    /\ run[r].pc = "restic_version"
    /\ \E outcome \in VersionOutcomes :
         run' = [run EXCEPT ![r] =
                   AfterVersion(Issue(run[r], "restic version", run[r].restic_cmd,
                                      NoCwd, outcome),
                                outcome, "path_check")]
    /\ UNCHANGED chk
    /\ EnvUnchanged

\* faulty variant: a path that is not a directory is only reported
AfterPathCheck_GoesOn(rec, is_dir) == [rec EXCEPT !.pc = "name"]

\* lines 203-205: a path that is not a directory returns 1
AfterPathCheck(rec, is_dir) ==
    IF ~is_dir THEN Return(rec, 1) ELSE [rec EXCEPT !.pc = "name"]

\* lines 203-205: the mount point must be a directory
PathCheck(r) ==
    /\ run[r].pc = "path_check"
    /\ \E is_dir \in BOOLEAN :
         run' = [run EXCEPT ![r] =
                   AfterPathCheck(Issue(run[r], "is_dir", run[r].source_path, NoCwd,
                                        IF is_dir THEN 0 ELSE 1),
                                  is_dir)]
    /\ UNCHANGED chk
    /\ EnvUnchanged

\* lines 207-210: choose the snapshot name from pid, host name and clock
GenerateName(r) ==
    /\ run[r].pc = "name"
    /\ run' = [run EXCEPT ![r] =
                 [run[r] EXCEPT !.pc = "resolve",
                                !.snap_name = SnapName(run[r].pid, run[r].nodename,
                                                       run[r].clock, run[r].tz)]]
    /\ UNCHANGED chk
    /\ EnvUnchanged

\* lines 214-217: ds = get_dataset_for_path(source_path)
ResolveDataset(r) ==
    /\ run[r].pc = "resolve"
    /\ \E resp \in Responses(ListOutputs) :
         /\ listResp \in {Unasked, resp}
         /\ listResp' = resp
         /\ LET ds == get_dataset_for_path(resp, run[r].source_path)
                rec == [Issue(run[r], "zfs list", <<>>, NoCwd, resp.rc) EXCEPT !.ds = ds]
            IN IF Falsy(ds)
               THEN run' = [run EXCEPT ![r] = Return(rec, 1)]
               ELSE run' = [run EXCEPT ![r] = [rec EXCEPT !.pc = "encroot"]]
    /\ UNCHANGED <<chk, encResp, ksResp, snapshots>>

\* lines 218-219, 228-229: enc_root = get_encryption_root(ds)
QueryEncryptionRoot(r) ==
    /\ run[r].pc = "encroot"
    /\ \E resp \in Responses(EncRootOutputs) :
         /\ encResp[run[r].ds] \in {Unasked, resp}
         /\ encResp' = [encResp EXCEPT ![run[r].ds] = resp]
         /\ LET enc_root == get_encryption_root(resp)
                rec == [Issue(run[r], "zfs get encryptionroot", run[r].ds, NoCwd, resp.rc)
                          EXCEPT !.enc_root = enc_root]
            IN IF ~Falsy(enc_root)
               THEN run' = [run EXCEPT ![r] = [rec EXCEPT !.pc = "keystatus"]]
               ELSE run' = [run EXCEPT ![r] =
                              [rec EXCEPT !.pc = "snapshot", !.lock = "unencrypted"]]
    /\ UNCHANGED <<chk, listResp, ksResp, snapshots>>

\* faulty variant: the keystatus of the dataset itself is queried
KeystatusTarget_Dataset(rec) == rec.ds

\* line 220: the dataset whose keystatus is queried
KeystatusTarget(rec) == rec.enc_root

\* lines 220-227: status = get_keystatus(enc_root) and its classification
QueryKeystatus(r) ==
    /\ run[r].pc = "keystatus"
    /\ \E resp \in Responses(KeystatusOutputs) :
         /\ ksResp[KeystatusTarget(run[r])] \in {Unasked, resp}
         /\ ksResp' = [ksResp EXCEPT ![KeystatusTarget(run[r])] = resp]
         /\ LET status == get_keystatus(resp)
                rec == [Issue(run[r], "zfs get keystatus", KeystatusTarget(run[r]),
                              NoCwd, resp.rc)
                          EXCEPT !.status = status]
            IN IF ClassifyKeystatus(status) = "available"
               THEN run' = [run EXCEPT ![r] =
                              [rec EXCEPT !.pc = "snapshot", !.lock = "unlocked"]]
               ELSE run' = [run EXCEPT ![r] = Return([rec EXCEPT !.lock = "locked"], 1)]
    /\ UNCHANGED <<chk, listResp, encResp, snapshots>>

\* lines 232-236: run_cmd(["zfs", "snapshot", ...]) with check=True
SnapshotCreate(r) ==
    /\ run[r].pc = "snapshot"
    /\ LET spec == SnapshotSpec(run[r].ds, run[r].snap_name)
       IN \E rc \in ZfsReturnCodes :
            /\ rc = 0 => spec \notin snapshots
            /\ LET rec == [Issue(run[r], "zfs snapshot", spec, NoCwd, rc)
                             EXCEPT !.snapshot_spec = spec]
               IN IF rc # 0
                  THEN /\ run' = [run EXCEPT ![r] = Raise(rec)]
                       /\ UNCHANGED snapshots
                  ELSE /\ run' = [run EXCEPT ![r] = [rec EXCEPT !.pc = "timestamp"]]
                       /\ snapshots' = snapshots \cup {spec}
    /\ UNCHANGED <<chk, listResp, encResp, ksResp>>

\* faulty variant: an unreadable creation time returns 1 without the destroy request
AfterTimestamp_NoCleanup(rec, restic_time) ==
    IF restic_time = Crash THEN Raise([rec EXCEPT !.restic_time = Crash])
    ELSE IF Falsy(restic_time) THEN Return(rec, 1)
    ELSE [rec EXCEPT !.pc = "view", !.restic_time = restic_time]

\* lines 237-241: an OverflowError escapes, no value leads to the cleanup
AfterTimestamp(rec, restic_time) ==
    IF restic_time = Crash THEN Raise([rec EXCEPT !.restic_time = Crash])
    ELSE IF Falsy(restic_time) THEN [rec EXCEPT !.pc = "cleanup"]
    ELSE [rec EXCEPT !.pc = "view", !.restic_time = restic_time]

\* faulty variant: the time is the clock reading taken for the snapshot name
ResticTimeSource_NameClock(rec, resp) ==
    IF get_snapshot_creation_time(resp, rec.tz) \in {None, Crash}
    THEN get_snapshot_creation_time(resp, rec.tz)
    ELSE FormatResticTime(LocalTime(rec.clock \div SecondsPerDay,
                                    rec.clock % SecondsPerDay, rec.tz))

\* line 237: the time comes from the snapshot's creation property alone
ResticTimeSource(rec, resp) == get_snapshot_creation_time(resp, rec.tz)

\* lines 237-239: restic_time = get_snapshot_creation_time(snapshot_spec);
\* creation keeps what the collaborator printed for the property
TimestampResolve(r) ==
    /\ run[r].pc = "timestamp"
    /\ \E resp \in Responses(CreationOutputs) :
         /\ resp.rc = 0 => run[r].snapshot_spec \in snapshots
         /\ LET restic_time == ResticTimeSource(run[r], resp)
                rec == [Issue(run[r], "zfs get creation", run[r].snapshot_spec,
                              NoCwd, resp.rc)
                          EXCEPT !.creation = resp.out]
            IN run' = [run EXCEPT ![r] = AfterTimestamp(rec, restic_time)]
    /\ UNCHANGED chk
    /\ EnvUnchanged

\* lines 243-245: the snapshot's directory under .zfs/snapshot must exist
ViewVerify(r) ==
    /\ run[r].pc = "view"
    /\ LET snapshot_dir == SnapshotDir(run[r].source_path, run[r].snap_name)
       IN \E is_dir \in BOOLEAN :
            /\ is_dir => run[r].snapshot_spec \in snapshots
            /\ LET rec == [Issue(run[r], "is_dir", snapshot_dir, NoCwd,
                                 IF is_dir THEN 0 ELSE 1)
                             EXCEPT !.snapshot_dir = snapshot_dir]
               IN IF ~is_dir
                  THEN run' = [run EXCEPT ![r] = [rec EXCEPT !.pc = "cleanup"]]
                  ELSE run' = [run EXCEPT ![r] = [rec EXCEPT !.pc = "backup"]]
    /\ UNCHANGED chk
    /\ EnvUnchanged

\* faulty variant: the request removes every snapshot of the run's dataset
Destroy_WholeDataset(r, rc) ==
    /\ rc = 0 => run[r].snapshot_spec \in snapshots
    /\ snapshots' = IF rc = 0
                    THEN {s \in snapshots :
                            SubSeq(s, 1, Len(run[r].ds)) # run[r].ds}
                    ELSE snapshots

\* run_cmd(["zfs", "destroy", snapshot_spec], check=False) against the collaborator
Destroy(r, rc) ==
    /\ rc = 0 => run[r].snapshot_spec \in snapshots
    /\ snapshots' = IF rc = 0 THEN snapshots \ {run[r].snapshot_spec} ELSE snapshots

\* faulty variant: a failed destroy request is issued a second time
AfterCleanup_RetriesOnce(rec, rc) ==
    IF rc # 0 /\ Cardinality({i \in 1..Len(rec.issued) : rec.issued[i].cmd = "zfs destroy"}) < 2
    THEN [rec EXCEPT !.pc = "cleanup"]
    ELSE Return(rec, 1)

\* lines 240-241, 246-247: the destroy request's result is ignored, return 1
AfterCleanup(rec, rc) == Return(rec, 1)

\* lines 240-241 and 246-247: destroy the snapshot, return 1
CleanupDestroy(r) ==
    /\ run[r].pc = "cleanup"
    /\ \E rc \in ZfsReturnCodes :
         /\ Destroy(r, rc)
         /\ run' = [run EXCEPT ![r] =
                      AfterCleanup(Issue(run[r], "zfs destroy", run[r].snapshot_spec,
                                         NoCwd, rc), rc)]
    /\ UNCHANGED <<chk, listResp, encResp, ksResp>>

\* faulty variant: the backup runs in the live mount point
BackupCwd_LiveMount(rec) == rec.source_path

\* line 257: cwd=snapshot_dir
BackupCwd(rec) == rec.snapshot_dir

\* faulty variant: a failed backup is cleaned up like an infrastructure failure
AfterBackup_CleansUp(rec, rc) ==
    IF rc # 0 THEN [rec EXCEPT !.pc = "cleanup"] ELSE [rec EXCEPT !.pc = "destroy"]

\* lines 258-262: a failed backup returns its code, a successful one goes on
AfterBackup(rec, rc) ==
    IF rc # 0 THEN Return(rec, rc) ELSE [rec EXCEPT !.pc = "destroy"]

\* lines 250-260: run restic backup in the snapshot directory
BackupRun(r) ==
    /\ run[r].pc = "backup"
    /\ \E rc \in ResticReturnCodes :
         LET cmd == BackupCmd(run[r].restic_cmd, run[r].restic_time,
                              run[r].restic_cli_args)
             rec == [Issue(run[r], "restic backup", cmd, BackupCwd(run[r]), rc)
                       EXCEPT !.cmd = cmd, !.returncode = rc]
         IN run' = [run EXCEPT ![r] = AfterBackup(rec, rc)]
    /\ UNCHANGED chk
    /\ EnvUnchanged

\* faulty variant: a failed destroy request fails the run
AfterDestroy_Escalates(rec, rc) == Return(rec, IF rc = 0 THEN 0 ELSE 1)

\* lines 263-266: the destroy request's result is ignored, return 0
AfterDestroy(rec, rc) == Return(rec, 0)

\* lines 262-266: destroy the snapshot after a successful backup, return 0
SnapshotDestroy(r) ==
    /\ run[r].pc = "destroy"
    /\ \E rc \in ZfsReturnCodes :
         /\ Destroy(r, rc)
         /\ run' = [run EXCEPT ![r] =
                      AfterDestroy(Issue(run[r], "zfs destroy", run[r].snapshot_spec,
                                         NoCwd, rc), rc)]
    /\ UNCHANGED <<chk, listResp, encResp, ksResp>>

Step(r) ==
    \/ ParseCLI(r)
    \/ ValidateResticBin(r)
    \/ ZfsVersion(r)
    \/ ResticVersion(r)
    \/ PathCheck(r)
    \/ GenerateName(r)
    \/ ResolveDataset(r)
    \/ QueryEncryptionRoot(r)
    \/ QueryKeystatus(r)
    \/ SnapshotCreate(r)
    \/ TimestampResolve(r)
    \/ ViewVerify(r)
    \/ CleanupDestroy(r)
    \/ BackupRun(r)
    \/ SnapshotDestroy(r)

(***************************************************************************)
(* zfs-check-unlocked.py: its own copies of the helpers, check_path and    *)
(* main.                                                                   *)
(***************************************************************************)
chk_get_dataset_for_path(resp, path) ==
    IF resp.rc # 0 THEN None ELSE FirstMatch(SplitLines(Strip(resp.out)), path)

chk_get_encryption_root(resp) ==
    IF resp.rc # 0 THEN None
    ELSE LET value == Strip(resp.out)
         IN IF value = <<>> \/ value = <<"-">> THEN None ELSE value

chk_get_keystatus(resp) ==
    IF resp.rc # 0 THEN None
    ELSE IF Strip(resp.out) = <<>> THEN None ELSE Strip(resp.out)

\* faulty variant: only the two known locked states are reported
chk_KeystatusError_OnlyKnownLocked(status, enc_root, resolved) ==
    IF status \in {<<"unavailable">>, <<"locked">>}
    THEN <<"Dataset is LOCKED: ">> \o resolved \o <<" (encryption root ">> \o enc_root
         \o <<") - unlock the dataset first">>
    ELSE None

\* lines 79-83: the error message for a keystatus, None when it is fine
chk_KeystatusError(status, enc_root, resolved) ==
    IF status \in {<<"unavailable">>, <<"locked">>}
    THEN <<"Dataset is LOCKED: ">> \o resolved \o <<" (encryption root ">> \o enc_root
         \o <<") - unlock the dataset first">>
    ELSE IF status # <<"available">>
    THEN <<"Unexpected keystatus '">> \o status \o <<"' for ">> \o enc_root
         \o <<" (">> \o resolved \o <<")">>
    ELSE None

CheckPathTokens == {MntA, MntB, Mnt, <<SP>>}

CheckArgvs == SeqsUpTo(CheckPathTokens, MaxPaths)

StartChk(argv) ==
    [pc |-> "start", argv |-> argv, i |-> 1, resolved |-> <<>>, ds |-> None,
     enc_root |-> None, failed |-> FALSE, stderr |-> <<>>, results |-> <<>>,
     exit |-> -1, issued |-> <<>>, first |-> 1]

\* check_path returned err for the current path: lines 97-99, then the next path
ChkPathDone(rec, err) ==
    [rec EXCEPT !.pc = "loop", !.i = @ + 1,
                !.failed = @ \/ ~Falsy(err),
                !.stderr = IF Falsy(err) THEN @ ELSE Append(@, err),
                !.results = Append(@, [path |-> rec.resolved, ds |-> rec.ds,
                                       enc_root |-> rec.enc_root, err |-> err,
                                       issued |-> SubSeq(rec.issued, rec.first,
                                                         Len(rec.issued))])]

\* lines 87-89: usage error without arguments
ChkMain ==
    /\ chk.pc = "start"
    /\ IF Len(chk.argv) < 1
       THEN chk' = [chk EXCEPT !.pc = "exited", !.exit = ExitStatus(1),
                               !.stderr = Append(@, <<"Usage">>)]
       ELSE chk' = [chk EXCEPT !.pc = "loop"]
    /\ UNCHANGED run
    /\ EnvUnchanged

\* lines 92-95 and 101: take the next path, skip blank ones, or finish
ChkLoop ==
    /\ chk.pc = "loop"
    /\ IF chk.i > Len(chk.argv)
       THEN chk' = [chk EXCEPT !.pc = "exited",
                               !.exit = ExitStatus(IF chk.failed THEN 1 ELSE 0)]
       ELSE LET path == Strip(chk.argv[chk.i])
            IN IF path = <<>>
               THEN chk' = [chk EXCEPT !.i = @ + 1]
               ELSE chk' = [chk EXCEPT !.pc = "resolve", !.resolved = AbsPath(path),
                                       !.ds = None, !.enc_root = None,
                                       !.first = Len(chk.issued) + 1]
    /\ UNCHANGED run
    /\ EnvUnchanged

\* check_path lines 69-72
ChkResolve ==
    /\ chk.pc = "resolve"
    /\ \E resp \in Responses(ListOutputs) :
         /\ listResp \in {Unasked, resp}
         /\ listResp' = resp
         /\ LET ds == chk_get_dataset_for_path(resp, chk.resolved)
                rec == [chk EXCEPT !.ds = ds,
                                   !.issued = Append(@, Req("zfs list", <<>>, NoCwd, resp.rc))]
            IN IF Falsy(ds)
               THEN chk' = ChkPathDone(rec, <<"No ZFS dataset with mountpoint: ">>
                                             \o chk.resolved)
               ELSE chk' = [rec EXCEPT !.pc = "encroot"]
    /\ UNCHANGED <<run, encResp, ksResp, snapshots>>

\* check_path lines 74-76
ChkEncryptionRoot ==
    /\ chk.pc = "encroot"
    /\ \E resp \in Responses(EncRootOutputs) :
         /\ encResp[chk.ds] \in {Unasked, resp}
         /\ encResp' = [encResp EXCEPT ![chk.ds] = resp]
         /\ LET enc_root == chk_get_encryption_root(resp)
                rec == [chk EXCEPT !.enc_root = enc_root,
                                   !.issued = Append(@, Req("zfs get encryptionroot",
                                                            chk.ds, NoCwd, resp.rc))]
            IN IF Falsy(enc_root)
               THEN chk' = ChkPathDone(rec, None)
               ELSE chk' = [rec EXCEPT !.pc = "keystatus"]
    /\ UNCHANGED <<run, listResp, ksResp, snapshots>>

\* check_path line 78: the dataset whose keystatus is queried
chk_KeystatusTarget(rec) == rec.enc_root

\* check_path lines 78-83
ChkKeystatus ==
    /\ chk.pc = "keystatus"
    /\ \E resp \in Responses(KeystatusOutputs) :
         /\ ksResp[chk_KeystatusTarget(chk)] \in {Unasked, resp}
         /\ ksResp' = [ksResp EXCEPT ![chk_KeystatusTarget(chk)] = resp]
         /\ LET status == chk_get_keystatus(resp)
                rec == [chk EXCEPT !.issued = Append(@, Req("zfs get keystatus",
                                                            chk_KeystatusTarget(chk),
                                                            NoCwd, resp.rc))]
            IN chk' = ChkPathDone(rec, chk_KeystatusError(status, chk.enc_root,
                                                          chk.resolved))
    /\ UNCHANGED <<run, listResp, encResp, snapshots>>

ChkStep ==
    \/ ChkMain
    \/ ChkLoop
    \/ ChkResolve
    \/ ChkEncryptionRoot
    \/ ChkKeystatus

(***************************************************************************)
(* One orchestrator run against a collaborator that has not been asked     *)
(* anything yet.                                                           *)
(***************************************************************************)
IdleChk == [StartChk(<<>>) EXCEPT !.pc = "idle"]

EnvInit ==
    /\ listResp = Unasked
    /\ encResp = [d \in QueryTargets |-> Unasked]
    /\ ksResp = [d \in QueryTargets |-> Unasked]
    /\ snapshots = {}

Init ==
    /\ \E argv \in BackupArgvs, pid \in Pids, nodename \in Nodenames,
          tz \in TzOffsets, clock \in Clocks :
         run = [r \in Runs |-> IF r = 1 THEN StartRun(argv, pid, nodename, tz, clock)
                                ELSE IdleRun]
    /\ chk = IdleChk
    /\ EnvInit

Next == \E r \in Runs : Step(r)

Spec == Init /\ [][Next]_vars

(***************************************************************************)
(* Two orchestrator processes alive on one host at the same time, both     *)
(* started on the same mount point: distinct pids, one host name and time  *)
(* zone; the second one reads the clock in the same second as the first or *)
(* in the second before.                                                   *)
(***************************************************************************)
FirstPid == 7
OtherPids == {17, 71}
TwoRunArgv(r) == IF r = 1 THEN <<MntA>> ELSE <<ResticBinFlag, ResticPath, MntA>>

InitTwo ==
    /\ \E p2 \in OtherPids, c2 \in Clocks :
         run = [r \in Runs |-> StartRun(TwoRunArgv(r), IF r = 1 THEN FirstPid ELSE p2,
                                        <<"nas">>, 0, IF r = 1 THEN 1704067200 ELSE c2)]
    /\ chk = IdleChk
    /\ EnvInit

SpecTwo == InitTwo /\ [][Next]_vars

\* One run under the scheduling the program has: the interpreter keeps
\* executing main, and every subprocess.run call returns, so a step that is
\* possible is eventually taken.  The process, host and clock are fixed.
FairArgvs == {<<MntA>>, <<ResticBinFlag, ResticPath, MntB>>, <<>>}

InitFair ==
    /\ \E argv \in FairArgvs :
         run = [r \in Runs |-> IF r = 1
                                THEN StartRun(argv, FirstPid, <<"nas">>, 0, 1704067200)
                                ELSE IdleRun]
    /\ chk = IdleChk
    /\ EnvInit

SpecFair == InitFair /\ [][Next]_vars /\ \A r \in Runs : WF_vars(Step(r))

(***************************************************************************)
(* One zfs-check-unlocked.py run.                                          *)
(***************************************************************************)
InitCheck ==
    /\ run = [r \in Runs |-> IdleRun]
    /\ \E argv \in CheckArgvs : chk = StartChk(argv)
    /\ EnvInit

SpecCheck == InitCheck /\ [][ChkStep]_vars

(***************************************************************************)
(* The lock check and one orchestrator run against the same collaborator,  *)
(* each started on a path of its own, in any interleaving.                 *)
(***************************************************************************)
BothBackupArgvs == {<<MntA>>, <<ResticBinFlag, ResticPath, MntB>>}

BothCheckArgvs == {<<MntA>>, <<MntB>>}

InitBoth ==
    /\ \E argv \in BothBackupArgvs :
         run = [r \in Runs |-> IF r = 1
                                THEN StartRun(argv, 7, <<"nas">>, 0, 1704067200)
                                ELSE IdleRun]
    /\ \E argv \in BothCheckArgvs : chk = StartChk(argv)
    /\ EnvInit

NextBoth == ChkStep \/ \E r \in Runs : Step(r)

SpecBoth == InitBoth /\ [][NextBoth]_vars

(***************************************************************************)
(* Vocabulary of the properties.                                           *)
(***************************************************************************)
Started == {r \in Runs : run[r].pc # "idle"}

Exited(r) == run[r].pc = "exited"

\* positions in run r's request log of the requests with command cmd
Positions(r, cmd) == {i \in 1..Len(run[r].issued) : run[r].issued[i].cmd = cmd}

\* the collaborator answered "available" for the keystatus of dataset d
AnsweredAvailable(d) ==
    /\ ksResp[d].rc = 0
    /\ \E i \in 1..Len(ksResp[d].out) :
         /\ ksResp[d].out[i] = "available"
         /\ \A j \in 1..Len(ksResp[d].out) : j # i => IsWS(ksResp[d].out[j])

\* the collaborator answered the encryptionroot query for d with no root
AnsweredNoRoot(d) ==
    /\ encResp[d].rc = 0
    /\ \/ \A j \in 1..Len(encResp[d].out) : IsWS(encResp[d].out[j])
       \/ \E i \in 1..Len(encResp[d].out) :
            /\ encResp[d].out[i] = "-"
            /\ \A j \in 1..Len(encResp[d].out) : j # i => IsWS(encResp[d].out[j])

\* the collaborator named root as the encryption root of d
AnsweredRoot(d, root) ==
    /\ encResp[d].rc = 0
    /\ root \in DatasetNames
    /\ \E i \in 1..Len(encResp[d].out) :
         /\ <<encResp[d].out[i]>> = root
         /\ \A j \in 1..Len(encResp[d].out) : j # i => IsWS(encResp[d].out[j])

(***************************************************************************)
(* C1. Lock gate: a backup is invoked only in a run whose lock check,      *)
(* earlier in the run, found the dataset unencrypted or found its          *)
(* encryption root's keystatus to be available; a run whose lock check     *)
(* finds the dataset locked ends with exit status 1 and has issued neither *)
(* a snapshot request nor a backup.                                        *)
(***************************************************************************)
C1_LockGate ==
    \A r \in Started :
      /\ \A i \in Positions(r, "restic backup") :
           /\ run[r].lock \in {"unencrypted", "unlocked"}
           /\ run[r].lock = "unencrypted" =>
                \E j \in Positions(r, "zfs get encryptionroot") :
                   j < i /\ Positions(r, "zfs get keystatus") = {}
           /\ run[r].lock = "unlocked" =>
                \E j \in Positions(r, "zfs get keystatus") :
                   /\ j < i
                   /\ AnsweredAvailable(run[r].issued[j].arg)
      /\ (\E j \in Positions(r, "zfs get keystatus") :
             ~AnsweredAvailable(run[r].issued[j].arg)) => run[r].lock = "locked"
      /\ run[r].lock = "locked" =>
           /\ Exited(r) /\ run[r].exit = 1
           /\ Positions(r, "zfs snapshot") = {}
           /\ Positions(r, "restic backup") = {}

C1_Witness ==
    \E r \in Started :
      /\ run[r].lock = "unlocked"
      /\ Positions(r, "restic backup") # {}

C1_WitnessLocked ==
    \E r \in Started : run[r].lock = "locked" /\ Exited(r)

\* run r's snapshot request succeeded
Created(r) ==
    \E j \in Positions(r, "zfs snapshot") :
       run[r].issued[j].rc = 0 /\ run[r].issued[j].arg = run[r].snapshot_spec

LastRequest(r) ==
    IF run[r].issued = <<>> THEN Req("none", <<>>, NoCwd, 0)
    ELSE run[r].issued[Len(run[r].issued)]

(***************************************************************************)
(* C2. Backup failure preserves evidence: when the backup tool was invoked *)
(* and returned a nonzero code, the run has issued no destroy request, the *)
(* snapshot it created still exists when it has returned, and for an exit  *)
(* code c in 1..255 the run's own exit status is c.                        *)
(***************************************************************************)
C2_BackupFailureKeepsSnapshot ==
    \A r \in Started :
      \A i \in Positions(r, "restic backup") :
        (Exited(r) /\ run[r].issued[i].rc # 0) =>
           /\ Positions(r, "zfs destroy") = {}
           /\ Created(r)
           /\ run[r].snapshot_spec \in snapshots
           /\ run[r].issued[i].rc \in 1..255 => run[r].exit = run[r].issued[i].rc

C2_Witness ==
    \E r \in Started :
      /\ Exited(r)
      /\ Positions(r, "restic backup") # {}
      /\ LastRequest(r).cmd = "restic backup"
      /\ LastRequest(r).rc = 3
      /\ run[r].exit = 3

(***************************************************************************)
(* C3. No orphaned snapshot on infrastructure failure.                     *)
(***************************************************************************)
\* get_snapshot_creation_time returned None for the snapshot of run r
TimestampFailed(r) ==
    /\ Positions(r, "zfs get creation") # {}
    /\ run[r].restic_time = None

\* the snapshot directory of run r was found missing
ViewFailed(r) ==
    \E k \in Positions(r, "is_dir") :
       run[r].issued[k].arg = run[r].snapshot_dir /\ run[r].issued[k].rc # 0

C3_WitnessOverflow ==
    \E r \in Started :
      /\ Exited(r) /\ Created(r) /\ run[r].restic_time = Crash
      /\ LastRequest(r).cmd = "zfs get creation"

C3_WitnessView ==
    \E r \in Started :
      /\ Exited(r) /\ Created(r) /\ ViewFailed(r)
      /\ LastRequest(r).cmd = "zfs destroy" /\ LastRequest(r).rc # 0
      /\ run[r].snapshot_spec \in snapshots

(***************************************************************************)
(* C4. Success path cleanup: the run is about to destroy the snapshot on   *)
(* the success path only right after a backup that returned 0; a run whose *)
(* backup returned 0 has, once returned, issued exactly one destroy        *)
(* request, for its own snapshot and after the backup, and its exit status *)
(* is 0 whatever that request returned.                                    *)
(***************************************************************************)
C4_SuccessCleanup ==
    \A r \in Started :
      /\ run[r].pc = "destroy" =>
           LastRequest(r).cmd = "restic backup" /\ LastRequest(r).rc = 0
      /\ \A i \in Positions(r, "restic backup") :
           (Exited(r) /\ run[r].issued[i].rc = 0) =>
              /\ Cardinality(Positions(r, "zfs destroy")) = 1
              /\ LastRequest(r).cmd = "zfs destroy"
              /\ LastRequest(r).arg = run[r].snapshot_spec
              /\ Len(run[r].issued) = i + 1
              /\ run[r].exit = 0

C4_Witness ==
    \E r \in Started :
      /\ Exited(r) /\ run[r].exit = 0
      /\ LastRequest(r).cmd = "zfs destroy" /\ LastRequest(r).rc # 0
      /\ run[r].snapshot_spec \in snapshots

(***************************************************************************)
(* C5. Exit-code mapping: a run that has exited with status 0 invoked the  *)
(* backup tool and got 0 from it; a run that exited without ever invoking  *)
(* the backup tool exited with status exactly 1.                           *)
(***************************************************************************)
C5_ExitCodes ==
    \A r \in Started :
      Exited(r) =>
        /\ run[r].exit = 0 =>
             \E i \in Positions(r, "restic backup") : run[r].issued[i].rc = 0
        /\ Positions(r, "restic backup") = {} => run[r].exit = 1

C5_Witness ==
    \E r \in Started :
      /\ Exited(r) /\ run[r].exit = 1
      /\ LastRequest(r).cmd = "zfs snapshot" /\ LastRequest(r).rc # 0

C5_WitnessVersion ==
    \E r \in Started :
      /\ Exited(r) /\ run[r].exit = 1
      /\ LastRequest(r).cmd = "restic version" /\ LastRequest(r).rc = 2

(***************************************************************************)
(* C6. Backup reads the frozen view: every backup invocation has as its    *)
(* working directory <mountpoint>/.zfs/snapshot/<name>, never the mount    *)
(* point itself, where <name> names the snapshot whose creation succeeded  *)
(* earlier in the run, and between that creation and the invocation this   *)
(* directory was found to exist.                                           *)
(***************************************************************************)
C6_FrozenView ==
    \A r \in Started :
      \A i \in Positions(r, "restic backup") :
        LET q == run[r].issued[i]
        IN /\ q.cwd = run[r].source_path \o <<SLASH, ".zfs", SLASH, "snapshot", SLASH>>
                        \o run[r].snap_name
           /\ q.cwd # run[r].source_path
           /\ \E j \in Positions(r, "zfs snapshot") :
                /\ j < i
                /\ run[r].issued[j].rc = 0
                /\ run[r].issued[j].arg = run[r].ds \o <<"@">> \o run[r].snap_name
                /\ \E k \in Positions(r, "is_dir") :
                     /\ j < k /\ k < i
                     /\ run[r].issued[k].arg = q.cwd
                     /\ run[r].issued[k].rc = 0

C6_Witness ==
    \E r \in Started :
      /\ run[r].pc = "destroy"
      /\ LastRequest(r).cmd = "restic backup"
      /\ LastRequest(r).cwd = MntA \o <<SLASH, ".zfs", SLASH, "snapshot", SLASH>>
                                \o run[r].snap_name

\* the finished checks of the lock check program
ChkResults == {chk.results[k] : k \in 1..Len(chk.results)}

\* the requests with command cmd issued during one finished check
ResultRequests(res, cmd) ==
    {res.issued[j] : j \in {j \in 1..Len(res.issued) : res.issued[j].cmd = cmd}}

(***************************************************************************)
(* C7. Fail-closed keystatus classification: whenever the keystatus query  *)
(* for an encryption root was not answered with exactly "available" (it    *)
(* failed, or printed nothing, "unavailable", "locked" or anything else),  *)
(* the orchestrator has classified the dataset as locked and exited 1      *)
(* without a snapshot request or a backup, and check_path has returned an  *)
(* error message.                                                          *)
(***************************************************************************)
C7_FailClosed ==
    /\ \A r \in Started :
         \A j \in Positions(r, "zfs get keystatus") :
           ~AnsweredAvailable(run[r].issued[j].arg) =>
              /\ run[r].lock = "locked"
              /\ Exited(r) /\ run[r].exit = 1
              /\ Positions(r, "zfs snapshot") = {}
              /\ Positions(r, "restic backup") = {}
    /\ \A res \in ChkResults :
         \A q \in ResultRequests(res, "zfs get keystatus") :
           ~AnsweredAvailable(q.arg) => ~Falsy(res.err)

C7_Witness ==
    /\ \E r \in Started :
         /\ run[r].lock = "locked"
         /\ ksResp[run[r].enc_root] = [rc |-> 0, out |-> <<"available", "x">>]
    /\ \E res \in ChkResults :
         /\ ResultRequests(res, "zfs get keystatus") # {}
         /\ ksResp[res.enc_root] = [rc |-> 0, out |-> <<"available", "x">>]
         /\ ~Falsy(res.err)

(***************************************************************************)
(* C8. Undeterminable encryption state is never assumed safe: when the     *)
(* encryptionroot query for the resolved dataset failed, check_path has    *)
(* reported an error for the path and the orchestrator neither treats the  *)
(* dataset as unencrypted nor issues a snapshot request or a backup, and   *)
(* does not exit 0.                                                        *)
(***************************************************************************)
C8_UndeterminableNotSafe ==
    /\ \A r \in Started :
         \A j \in Positions(r, "zfs get encryptionroot") :
           run[r].issued[j].rc # 0 =>
              /\ run[r].lock # "unencrypted"
              /\ Positions(r, "zfs snapshot") = {}
              /\ Positions(r, "restic backup") = {}
              /\ Exited(r) => run[r].exit # 0
    /\ \A res \in ChkResults :
         \A q \in ResultRequests(res, "zfs get encryptionroot") :
           q.rc # 0 => ~Falsy(res.err)

(***************************************************************************)
(* C9. Shared encryption root: every keystatus query is issued for the     *)
(* name the collaborator gave as the encryption root of the dataset under  *)
(* check; any two verdicts on datasets with the same encryption root are   *)
(* equal; and a verdict is "unlocked" exactly when the collaborator        *)
(* answers "available" for that root.                                      *)
(***************************************************************************)
Verdicts ==
    {[ds |-> run[r].ds, root |-> run[r].enc_root, ok |-> run[r].lock = "unlocked"] :
        r \in {r \in Started : run[r].lock \in {"unlocked", "locked"}}}
    \cup
    {[ds |-> res.ds, root |-> res.enc_root, ok |-> Falsy(res.err)] :
        res \in {res \in ChkResults : ResultRequests(res, "zfs get keystatus") # {}}}

C9_SharedRoot ==
    /\ \A r \in Started :
         \A j \in Positions(r, "zfs get keystatus") :
           AnsweredRoot(run[r].ds, run[r].issued[j].arg)
    /\ \A res \in ChkResults :
         \A q \in ResultRequests(res, "zfs get keystatus") :
           AnsweredRoot(res.ds, q.arg)
    /\ \A v \in Verdicts : AnsweredRoot(v.ds, v.root)
    /\ \A v1, v2 \in Verdicts : v1.root = v2.root => v1.ok = v2.ok
    /\ \A v \in Verdicts : v.ok <=> AnsweredAvailable(v.root)

C9_Witness ==
    \E v1, v2 \in Verdicts :
      /\ v1.ds = TankA /\ v2.ds = TankB
      /\ v1.root = Tank /\ v2.root = Tank
      /\ v1.ok /\ v2.ok

(***************************************************************************)
(* C10. Unencrypted datasets skip the keystatus query: when the            *)
(* encryptionroot query is answered with an empty value or with "-", the   *)
(* orchestrator classifies the dataset as unencrypted and check_path       *)
(* returns OK, and no keystatus query is issued in that check.             *)
(***************************************************************************)
C10_UnencryptedSkipsKeystatus ==
    /\ \A r \in Started :
         \A j \in Positions(r, "zfs get encryptionroot") :
           AnsweredNoRoot(run[r].issued[j].arg) =>
              /\ run[r].lock = "unencrypted"
              /\ Positions(r, "zfs get keystatus") = {}
    /\ \A res \in ChkResults :
         \A q \in ResultRequests(res, "zfs get encryptionroot") :
           AnsweredNoRoot(q.arg) =>
              /\ Falsy(res.err)
              /\ ResultRequests(res, "zfs get keystatus") = {}
    /\ chk.pc = "keystatus" => ~AnsweredNoRoot(chk.ds)

C10_Witness ==
    /\ \E r \in Started :
         /\ run[r].lock = "unencrypted"
         /\ encResp[run[r].ds] = [rc |-> 0, out |-> <<"-", NL>>]
         /\ Positions(r, "zfs snapshot") # {}
    /\ \E res \in ChkResults :
         /\ res.ds # None
         /\ encResp[res.ds] = [rc |-> 0, out |-> <<>>]
         /\ Falsy(res.err)

(***************************************************************************)
(* C11. Lock-check mode exit contract.                                     *)
(***************************************************************************)
\* the path arguments the lock check looks at (blank ones are skipped)
GivenPaths == {k \in 1..Len(chk.argv) : Strip(chk.argv[k]) # <<>>}

\* by the collaborator's answers, the path resolves to a dataset that has no
\* encryption root or whose encryption root's keystatus is available
PathPasses(tok) ==
    LET d == chk_get_dataset_for_path(listResp, AbsPath(Strip(tok)))
    IN /\ ~Falsy(d)
       /\ \/ AnsweredNoRoot(d)
          \/ \E root \in DatasetNames : AnsweredRoot(d, root) /\ AnsweredAvailable(root)

\* C11 as claimed: given path arguments, the lock check exits 0 if and only
\* if every given path resolves to a dataset that is unencrypted or unlocked;
\* otherwise it exits 1 and has printed exactly one diagnostic line for each
\* failing path and none for a passing one.
C11_ExitContract ==
    (chk.pc = "exited" /\ GivenPaths # {}) =>
       LET failing == {k \in GivenPaths : ~PathPasses(chk.argv[k])}
       IN /\ (chk.exit = 0) <=> (failing = {})
          /\ failing # {} => chk.exit = 1
          /\ Len(chk.stderr) = Cardinality(failing)


(***************************************************************************)
(* C12. Snapshot name uniqueness.                                          *)
(***************************************************************************)
Named(r) == run[r].snap_name # <<>>

SameHostAndSecond(r1, r2) ==
    /\ run[r1].nodename = run[r2].nodename
    /\ run[r1].tz = run[r2].tz
    /\ run[r1].clock = run[r2].clock

\* C12: two orchestrator processes with distinct pids that chose their names on
\* the same host in the same second have different snapshot names, and when
\* both have requested a snapshot of the same dataset the two requests name
\* different dataset@name
C12_NameUniqueness ==
    \A r1 \in Runs, r2 \in Runs :
       (r1 # r2 /\ Named(r1) /\ Named(r2) /\ run[r1].pid # run[r2].pid
          /\ SameHostAndSecond(r1, r2)) =>
          /\ run[r1].snap_name # run[r2].snap_name
          /\ (run[r1].snapshot_spec # <<>> /\ run[r2].snapshot_spec # <<>>
                /\ run[r1].ds = run[r2].ds) =>
                run[r1].snapshot_spec # run[r2].snapshot_spec

\* both processes, named in the same second, hold a snapshot of the same
\* dataset at the same time
C12_Witness ==
    /\ run[1].pid # run[2].pid
    /\ SameHostAndSecond(1, 2)
    /\ run[1].ds = run[2].ds
    /\ run[1].snapshot_spec \in snapshots
    /\ run[2].snapshot_spec \in snapshots
    /\ Cardinality(snapshots) = 2


(***************************************************************************)
(* C13. Authoritative timestamp.                                           *)
(***************************************************************************)
\* the instant, in whole seconds, that a printed creation property denotes:
\* the number itself, or the number without its last nine digits when it is
\* given in nanoseconds
CreationSeconds(out) ==
    LET raw == Strip(out)
    IN IF Len(raw) > 12 THEN DigitsToInt(SubSeq(raw, 1, Len(raw) - NanoDigits), 0)
       ELSE DigitsToInt(raw, 0)

AsResticTime(seconds, tz) ==
    FormatResticTime(LocalTime(seconds \div SecondsPerDay, seconds % SecondsPerDay, tz))

\* C13: the --time argument of every backup invocation is the local time of the
\* creation property the collaborator reported for this run's snapshot, read
\* by a successful query issued after the successful snapshot request; when the
\* clock reading used for the name denotes another second, --time is not that
\* reading
C13_AuthoritativeTimestamp ==
    \A r \in Runs : \A j \in Positions(r, "restic backup") :
       LET time  == run[r].issued[j].arg[4]
           spec  == run[r].snapshot_spec
           reads == {i \in Positions(r, "zfs get creation") :
                       /\ i < j
                       /\ run[r].issued[i].rc = 0
                       /\ run[r].issued[i].arg = spec
                       /\ \E k \in Positions(r, "zfs snapshot") :
                            k < i /\ run[r].issued[k].rc = 0
                                  /\ run[r].issued[k].arg = spec}
       IN /\ reads # {}
          /\ run[r].issued[j].arg[3] = <<"--time">>
          /\ time = AsResticTime(CreationSeconds(run[r].creation), run[r].tz)
          /\ CreationSeconds(run[r].creation) # run[r].clock =>
                time # AsResticTime(run[r].clock, run[r].tz)

\* a backup was invoked in a run whose clock reading and snapshot creation
\* time are different seconds
C13_Witness ==
    \E r \in Runs :
       /\ Positions(r, "restic backup") # {}
       /\ run[r].clock = 1704067199
       /\ CreationSeconds(run[r].creation) = 1704067201


(***************************************************************************)
(* C14. Argument pass-through.                                             *)
(***************************************************************************)
\* the command line without its optional leading `--restic-bin <path>`
AfterResticBin(argv) ==
    IF Len(argv) >= 2 /\ argv[1] = ResticBinFlag THEN SubSeq(argv, 3, Len(argv)) ELSE argv

\* a1 ... an: what follows the first `--` behind the mount point, nothing
\* when there is no `--`
TrailingArgs(argv) ==
    LET rest == AfterResticBin(argv)
        i == TokenIndex(rest, DashDash)
    IN IF i = 0 THEN <<>> ELSE SubSeq(rest, i + 1, Len(rest))

\* C14: every backup invocation has the argv `<restic> backup --time <ts> .`
\* followed by exactly the command line's arguments after the first `--`,
\* unmodified and in order, and by nothing when the command line has no `--`
C14_PassThrough ==
    \A r \in Runs : \A j \in Positions(r, "restic backup") :
       LET cmd == run[r].issued[j].arg
       IN /\ Len(cmd) = 5 + Len(TrailingArgs(run[r].argv))
          /\ cmd[1] = (IF run[r].argv[1] = ResticBinFlag
                       THEN AbsPath(Strip(run[r].argv[2])) ELSE <<"restic">>)
          /\ cmd[2] = <<"backup">>
          /\ cmd[3] = <<"--time">>
          /\ cmd[4] = run[r].restic_time
          /\ cmd[5] = <<".">>
          /\ SubSeq(cmd, 6, Len(cmd)) = TrailingArgs(run[r].argv)

\* a backup was invoked for a command line whose trailing arguments contain a
\* second `--` and an argument with surrounding blanks
C14_Witness ==
    \E r \in Runs :
       /\ Positions(r, "restic backup") # {}
       /\ TrailingArgs(run[r].argv) = <<<<"-v">>, DashDash, <<SP, "y", SP>>>>

\* a backup was invoked for a command line without `--`
C14_WitnessNoArgs ==
    \E r \in Runs :
       /\ Positions(r, "restic backup") # {}
       /\ TokenIndex(run[r].argv, DashDash) = 0


(***************************************************************************)
(* C15. The command proxy never raises on a nonzero exit.                  *)
(***************************************************************************)
\* C15 as claimed: no run is ended by an unhandled exception right after an
\* external command of its own that exited nonzero; in particular a failed
\* snapshot request ends the run through a return of main
C15_ProxyNeverRaises ==
    \A r \in Runs :
       (Exited(r) /\ LastRequest(r).rc # 0) => ~run[r].traceback


(***************************************************************************)
(* C16. Exact-match dataset resolution.                                    *)
(***************************************************************************)
\* the lines of a listing as the collaborator printed them
PrintedLines(out) == SplitLines(out)

\* the listing has a line that pairs dataset d with exactly the mountpoint path
ListsPair(out, d, path) ==
    \E k \in 1..Len(PrintedLines(out)) :
       LET line == PrintedLines(out)[k]
           t == FirstIndex(line, TAB)
       IN t # 0 /\ SubSeq(line, 1, t - 1) = d /\ SubSeq(line, t + 1, Len(line)) = path

\* C16 as claimed: a run that has issued the listing request holds a dataset
\* name only if the listing pairs that name with a mountpoint equal to the
\* path it asked about, and a run that got no dataset has exited with status 1
\* with the listing as its last request
C16_ExactMatch ==
    \A r \in Runs :
       Positions(r, "zfs list") # {} =>
          /\ run[r].ds # None =>
                listResp.rc = 0 /\ ListsPair(listResp.out, run[r].ds, run[r].source_path)
          /\ Falsy(run[r].ds) =>
                /\ Exited(r) /\ run[r].exit = 1
                /\ LastRequest(r).cmd = "zfs list"


(***************************************************************************)
(* C17. State ordering.                                                    *)
(***************************************************************************)
\* the place of a request in the fixed order of the states
Rank(r, req) ==
    CASE req.cmd = "zfs version"            -> 1
      [] req.cmd = "restic version"         -> 2
      [] req.cmd = "is_dir" /\ req.arg = run[r].source_path -> 3
      [] req.cmd = "zfs list"               -> 4
      [] req.cmd = "zfs get encryptionroot" -> 5
      [] req.cmd = "zfs get keystatus"      -> 6
      [] req.cmd = "zfs snapshot"           -> 7
      [] req.cmd = "zfs get creation"       -> 8
      [] req.cmd = "is_dir"                 -> 9
      [] req.cmd = "restic backup"          -> 10
      [] req.cmd = "zfs destroy"            -> 11
      [] OTHER                              -> 0

\* request i of run r went well for the orchestrator: the command exited 0,
\* and the listing gave a dataset, the keystatus query gave the verdict
\* unlocked, the creation time was readable; the encryptionroot query has no
\* failing outcome of its own, it leads to the keystatus query or to the
\* verdict unencrypted
StateSucceeded(r, i) ==
    LET req == run[r].issued[i]
    IN CASE req.cmd = "zfs list"               -> req.rc = 0 /\ ~Falsy(run[r].ds)
         [] req.cmd = "zfs get encryptionroot" -> TRUE
         [] req.cmd = "zfs get keystatus"      -> run[r].lock = "unlocked"
         [] req.cmd = "zfs get creation"       ->
               req.rc = 0 /\ run[r].restic_time \notin {None, Crash}
         [] OTHER                              -> req.rc = 0

\* the states a request of rank k comes after: all of 1..k-1, the keystatus
\* query only for an encrypted dataset; a destroy request needs the states up
\* to the snapshot request only, because it is also the cleanup of a failed
\* creation-time read or view check
StatesBefore(r, k) ==
    (1..((IF k = 11 THEN 8 ELSE k) - 1))
       \ (IF run[r].lock = "unencrypted" THEN {6} ELSE {})

\* C17: the requests of a run follow the fixed order of the states, each
\* request comes after the requests of all earlier states, every request
\* before it other than a failed creation-time read or view check that leads
\* to the cleanup belongs to a state that succeeded, and a run without a
\* snapshot request leaves no snapshot behind
C17_StateOrdering ==
    \A r \in Runs :
       LET log == run[r].issued
       IN /\ \A i \in 1..Len(log), j \in 1..Len(log) :
                i < j => Rank(r, log[i]) < Rank(r, log[j])
          /\ \A j \in 1..Len(log) :
                LET k == Rank(r, log[j])
                IN /\ k # 0
                   /\ StatesBefore(r, k) \subseteq {Rank(r, log[i]) : i \in 1..(j - 1)}
                   /\ \A i \in 1..(j - 1) :
                         (k # 11 \/ Rank(r, log[i]) < 8) => StateSucceeded(r, i)
          /\ Positions(r, "zfs snapshot") = {} => run[r].snapshot_spec \notin snapshots

\* a run went through all the states up to the destroy request
C17_Witness ==
    \E r \in Runs :
       /\ Exited(r)
       /\ {Rank(r, run[r].issued[i]) : i \in 1..Len(run[r].issued)} = 1..11

\* a run failed in LockCheck and ended with the keystatus query as its last request
C17_WitnessLocked ==
    \E r \in Runs :
       /\ Exited(r) /\ run[r].lock = "locked"
       /\ LastRequest(r).cmd = "zfs get keystatus"


(***************************************************************************)
(* C18. No retries and termination.                                        *)
(***************************************************************************)
IssuedAtMostOnce(r, cmd) == Cardinality(Positions(r, cmd)) <= 1

\* C18: every started run eventually ends, and at every moment a run has
\* issued the snapshot request, the backup invocation and the destroy request
\* at most once each
C18_NoRetriesAndTermination ==
    /\ [](\A r \in Runs : /\ IssuedAtMostOnce(r, "zfs snapshot")
                          /\ IssuedAtMostOnce(r, "restic backup")
                          /\ IssuedAtMostOnce(r, "zfs destroy"))
    /\ \A r \in Runs : [](r \in Started => <>Exited(r))

\* a run has ended after a destroy request that failed
C18_Witness ==
    \E r \in Runs :
       /\ Exited(r)
       /\ \E i \in Positions(r, "zfs destroy") : run[r].issued[i].rc # 0
       /\ ViewFailed(r)


(***************************************************************************)
(* C19. Frame on the collaborator's state.                                 *)
(***************************************************************************)
\* the requests that only read
ReadOnlyRequests ==
    {"zfs version", "restic version", "is_dir", "zfs list",
     "zfs get encryptionroot", "zfs get keystatus", "zfs get creation"}

\* run r has issued a destroy request that succeeded
Destroyed(r) ==
    \E j \in Positions(r, "zfs destroy") : run[r].issued[j].rc = 0

\* C19: every request of a run is a read, the backup invocation, or the
\* creation or destruction of the run's own dataset@name (so there is no
\* unlock or load-key request and no destroy of another snapshot), and the
\* snapshot of a run exists exactly from its own successful snapshot request
\* to its own successful destroy request, whatever the other run does
C19_Frame ==
    /\ \A r \in Runs : \A j \in 1..Len(run[r].issued) :
          LET req == run[r].issued[j]
          IN \/ req.cmd \in ReadOnlyRequests
             \/ req.cmd = "restic backup"
             \/ /\ req.cmd \in {"zfs snapshot", "zfs destroy"}
                /\ req.arg = SnapshotSpec(run[r].ds, run[r].snap_name)
    /\ \A r \in Runs :
          (Created(r) /\ ~Destroyed(r)) <=> run[r].snapshot_spec \in snapshots

\* one run has destroyed its snapshot while the other, on the same dataset,
\* is at the backup invocation with its own snapshot in place
C19_Witness ==
    \E r \in Runs, q \in Runs :
       /\ r # q
       /\ run[r].ds = run[q].ds
       /\ Created(r) /\ Destroyed(r) /\ Exited(r)
       /\ run[q].pc = "backup"
       /\ run[q].snapshot_spec \in snapshots


(***************************************************************************)
(* C20. The two copies of the encryption-state verifier agree.             *)
(***************************************************************************)
\* run r has finished its lock check: no dataset, or a verdict
LockChecked(r) ==
    /\ Positions(r, "zfs list") # {}
    /\ Falsy(run[r].ds) \/ run[r].lock # "pending"

\* the lock check of run r let it go on to the snapshot request
LockCheckPassed(r) == run[r].lock \in {"unencrypted", "unlocked"}

\* C20: when check_path and the orchestrator's lock check have both been run
\* on the same absolute path against the same answers of the collaborator,
\* they resolved the same dataset and the same encryption root, and
\* check_path returned OK exactly when the orchestrator's lock check passed
C20_CopiesAgree ==
    \A r \in Started : \A res \in ChkResults :
       (LockChecked(r) /\ res.path = run[r].source_path) =>
          /\ res.ds = run[r].ds
          /\ res.enc_root = run[r].enc_root
          /\ Falsy(res.err) <=> LockCheckPassed(r)

\* both copies found the path's dataset unlocked after asking for the
\* keystatus of its encryption root
C20_Witness ==
    \E r \in Started : \E res \in ChkResults :
       /\ res.path = run[r].source_path
       /\ run[r].lock = "unlocked"
       /\ Falsy(res.err)
       /\ ResultRequests(res, "zfs get keystatus") # {}

\* both copies rejected the path
C20_WitnessRejected ==
    \E r \in Started : \E res \in ChkResults :
       /\ res.path = run[r].source_path
       /\ run[r].lock = "locked"
       /\ ~Falsy(res.err)

====
